---------------------------- MODULE Spec2Model ----------------------------
(***************************************************************************)
(* nifgen: the schema interpretation pipeline of buddle-nif.               *)
(*                                                                         *)
(*   predicates.py  check_version, should_emit_struct, should_emit_member  *)
(*   types.py       convert_field_name, Type, Compound, NiObject           *)
(*   expr.py        parse_expression                                       *)
(*                                                                         *)
(* Python strings are sequences of one-character strings, so that          *)
(* splitting, stripping, formatting and regular-expression matching are    *)
(* computed character by character.  Python's None is the value None.      *)
(***************************************************************************)
EXTENDS Integers, Sequences, FiniteSets, TLC

VARIABLES
    version, string, relation,           \* check_version(version, string)
    attrib, emit,                        \* should_emit_struct / should_emit_member
    objName, entries, fields, reports, count,   \* Compound.from_xml / NiObject.from_xml
    tree, native, expr, match, result,   \* parse_expression(expr)
    done                                 \* whether the function under check has returned

vars == <<version, string, relation, attrib, emit,
          objName, entries, fields, reports, count, tree, native, expr, match, result, done>>

(***************************************************************************)
(* Strings                                                                 *)
(***************************************************************************)
\* Python's None; no string equals it, since strings hold single characters.
None == <<"None">>

\* str(x) as the f-strings apply it: str(None) is the text None.
Str(x) == IF x = None THEN <<"N", "o", "n", "e">> ELSE x

UpperChars == <<"A", "B", "C", "D", "E", "F", "G", "H", "I", "J", "K", "L", "M", "N", "O", "P", "Q", "R", "S", "T", "U", "V", "W", "X", "Y", "Z">>
LowerChars == <<"a", "b", "c", "d", "e", "f", "g", "h", "i", "j", "k", "l", "m", "n", "o", "p", "q", "r", "s", "t", "u", "v", "w", "x", "y", "z">>
DigitChars == <<"0", "1", "2", "3", "4", "5", "6", "7", "8", "9">>

Range(s) == {s[i] : i \in DOMAIN s}

\* \w of Python's re for the characters of the schema: letters, digits, underscore.
IsWord(c) == c \in Range(UpperChars) \cup Range(LowerChars) \cup Range(DigitChars) \cup {"_"}

IndexIn(c, s) == CHOOSE i \in DOMAIN s : s[i] = c

LowerChar(c) == IF c \in Range(UpperChars) THEN LowerChars[IndexIn(c, UpperChars)] ELSE c
UpperChar(c) == IF c \in Range(LowerChars) THEN UpperChars[IndexIn(c, LowerChars)] ELSE c

\* str.lower()
Lower(s) == [i \in DOMAIN s |-> LowerChar(s[i])]

\* str.startswith(p)
StartsWith(s, p) == Len(p) <= Len(s) /\ SubSeq(s, 1, Len(p)) = p

\* the 1-based positions at which sub occurs in s
Occurrences(s, sub) ==
    {i \in 1..(Len(s) - Len(sub) + 1) : SubSeq(s, i, i + Len(sub) - 1) = sub}

\* sub in s
Contains(s, sub) == Occurrences(s, sub) # {}

\* str.isnumeric() for the characters of the schema
IsNumeric(s) == Len(s) > 0 /\ \A i \in DOMAIN s : s[i] \in Range(DigitChars)

\* str.split(sep) for a non-empty separator: the list of parts
RECURSIVE Split(_, _)
Split(s, sep) ==
    IF ~Contains(s, sep) THEN <<s>>
    ELSE LET i == CHOOSE k \in Occurrences(s, sep) : \A m \in Occurrences(s, sep) : k <= m
         IN  <<SubSeq(s, 1, i - 1)>> \o Split(SubSeq(s, i + Len(sep), Len(s)), sep)

\* sep.join(parts)
RECURSIVE Join(_, _)
Join(sep, parts) ==
    IF parts = <<>> THEN <<>>
    ELSE IF Len(parts) = 1 THEN parts[1]
    ELSE parts[1] \o sep \o Join(sep, Tail(parts))

\* str.replace(old, new) for a single character old
RECURSIVE ReplaceChar(_, _, _)
ReplaceChar(s, old, new) ==
    IF s = <<>> THEN <<>>
    ELSE (IF Head(s) = old THEN new ELSE <<Head(s)>>) \o ReplaceChar(Tail(s), old, new)

\* str.lstrip(chars) / str.rstrip(chars) for a set of characters
RECURSIVE LStrip(_, _)
LStrip(s, chars) ==
    IF s # <<>> /\ Head(s) \in chars THEN LStrip(Tail(s), chars) ELSE s

RECURSIVE RStrip(_, _)
RStrip(s, chars) ==
    IF s # <<>> /\ s[Len(s)] \in chars THEN RStrip(SubSeq(s, 1, Len(s) - 1), chars) ELSE s

\* int(s) for a string of decimal digits
RECURSIVE ParseInt(_)
ParseInt(s) ==
    IF s = <<>> THEN 0
    ELSE 10 * ParseInt(SubSeq(s, 1, Len(s) - 1)) + (IndexIn(s[Len(s)], DigitChars) - 1)

(***************************************************************************)
(* __init__.py                                                             *)
(***************************************************************************)
VersionInfo(a, b, c, d) == [major |-> a, minor |-> b, micro |-> c, patch |-> d]

TARGET_VERSIONS == <<
    VersionInfo(20, 1, 0, 3),
    VersionInfo(20, 2, 0, 7),
    VersionInfo(20, 2, 0, 8),
    VersionInfo(20, 3, 0, 9),
    VersionInfo(20, 6, 0, 0) >>

(***************************************************************************)
(* predicates.py                                                           *)
(***************************************************************************)
BETHESDA_MODULES == {<<"B", "S", "M", "a", "i", "n">>, <<"B", "S", "A", "n", "i", "m", "a", "t", "i", "o", "n">>, <<"B", "S", "P", "a", "r", "t", "i", "c", "l", "e">>, <<"B", "S", "H", "a", "v", "o", "k">>, <<"B", "S", "L", "e", "g", "a", "c", "y">>}
EXCLUDED_NAMES == {<<"R", "e", "n", "d", "e", "r", "e", "r", "I", "D">>, <<"B", "o", "n", "e", "T", "r", "a", "n", "s", "f", "o", "r", "m">>}

VersionRelation == {"LOWER", "EXACT", "HIGHER"}

split_version_string(str) ==
    LET parts == IF Contains(str, <<".">>) THEN Split(str, <<".">>) ELSE Split(str, <<"_">>)
    IN  [parts EXCEPT ![1] = LStrip(parts[1], {"V"})]

\* parts.get(idx, 0) over {idx: int(val)}
VersionPart(parts, idx) == IF idx + 1 \in DOMAIN parts THEN ParseInt(parts[idx + 1]) ELSE 0

check_version_flipped(ver, str) ==
    LET parts == split_version_string(str)
        major == VersionPart(parts, 0)
        minor == VersionPart(parts, 1)
        micro == VersionPart(parts, 2)
        patch == VersionPart(parts, 3)
    IN  IF major > ver.major THEN "LOWER"
        ELSE IF major < ver.major THEN "HIGHER"
        ELSE IF minor > ver.minor THEN "LOWER"
        ELSE IF minor < ver.minor THEN "HIGHER"
        ELSE IF micro > ver.micro THEN "LOWER"
        ELSE IF micro < ver.micro THEN "HIGHER"
        ELSE IF patch > ver.patch THEN "LOWER"
        ELSE IF patch < ver.patch THEN "HIGHER"
        ELSE "EXACT"

check_version(ver, str) ==
    LET parts == split_version_string(str)
        major == VersionPart(parts, 0)
        minor == VersionPart(parts, 1)
        micro == VersionPart(parts, 2)
        patch == VersionPart(parts, 3)
    IN  IF major < ver.major THEN "LOWER"
        ELSE IF major > ver.major THEN "HIGHER"
        ELSE IF minor < ver.minor THEN "LOWER"
        ELSE IF minor > ver.minor THEN "HIGHER"
        ELSE IF micro < ver.micro THEN "LOWER"
        ELSE IF micro > ver.micro THEN "HIGHER"
        ELSE IF patch < ver.patch THEN "LOWER"
        ELSE IF patch > ver.patch THEN "HIGHER"
        ELSE "EXACT"

\* "key in attrib" and attrib.get(key) of the attribute dictionaries
Has(attr, key) == key \in DOMAIN attr
Get(attr, key) == IF key \in DOMAIN attr THEN attr[key] ELSE None

\* check_target_version, the inner function of should_emit_struct
struct_check_target_version(attr, ver) ==
    IF Has(attr, "since") /\ ~Has(attr, "versions")
    THEN LET x == check_version(ver, attr["since"]) # "HIGHER"
         IN  IF Has(attr, "until")
             THEN x /\ check_version(ver, attr["until"]) # "HIGHER"
             ELSE x
    ELSE IF Has(attr, "versions") /\ ~StartsWith(attr["versions"], <<"#">>)
    THEN \E v \in Range(Split(attr["versions"], <<" ">>)) : check_version(ver, v) = "EXACT"
    ELSE TRUE

should_emit_struct_nongeneric_only(attr) ==
    IF Has(attr, "versions") /\ ~StartsWith(attr["versions"], <<"#">>) THEN FALSE
    ELSE IF Has(attr, "module") /\ attr["module"] \in BETHESDA_MODULES THEN FALSE
    ELSE IF Has(attr, "name") /\ attr["name"] \in EXCLUDED_NAMES THEN FALSE
    ELSE IF Has(attr, "name") /\ Contains(Lower(attr["name"]), <<"p", "h", "y", "s", "x">>) THEN FALSE
    ELSE IF Has(attr, "name") /\ StartsWith(attr["name"], <<"b", "h", "k">>) THEN FALSE
    ELSE \E i \in DOMAIN TARGET_VERSIONS : struct_check_target_version(attr, TARGET_VERSIONS[i])

should_emit_struct(attr) ==
    IF Has(attr, "versions") THEN FALSE
    ELSE IF Has(attr, "module") /\ attr["module"] \in BETHESDA_MODULES THEN FALSE
    ELSE IF Has(attr, "name") /\ attr["name"] \in EXCLUDED_NAMES THEN FALSE
    ELSE IF Has(attr, "name") /\ Contains(Lower(attr["name"]), <<"p", "h", "y", "s", "x">>) THEN FALSE
    ELSE IF Has(attr, "name") /\ StartsWith(attr["name"], <<"b", "h", "k">>) THEN FALSE
    ELSE \E i \in DOMAIN TARGET_VERSIONS : struct_check_target_version(attr, TARGET_VERSIONS[i])

\* check_target_version, the inner function of should_emit_member
member_check_target_version_ver2_higher(attr, ver) ==
    IF Has(attr, "ver1") /\ check_version(ver, attr["ver1"]) = "HIGHER" THEN FALSE
    ELSE IF Has(attr, "ver2") /\ check_version(ver, attr["ver2"]) = "HIGHER" THEN FALSE
    ELSE TRUE

member_check_target_version(attr, ver) ==
    IF Has(attr, "ver1") /\ check_version(ver, attr["ver1"]) = "HIGHER" THEN FALSE
    ELSE IF Has(attr, "ver2") /\ check_version(ver, attr["ver2"]) = "LOWER" THEN FALSE
    ELSE TRUE

should_emit_member(attr) ==
    IF ~\E i \in DOMAIN TARGET_VERSIONS : member_check_target_version(attr, TARGET_VERSIONS[i])
    THEN FALSE
    ELSE IF /\ Get(attr, "vercond") # None
            /\ Get(attr, "vercond") # <<"#", "N", "I", "S", "T", "R", "E", "A", "M", "#">>
            /\ ~StartsWith(Get(attr, "vercond"), <<"!">>)
            /\ ~StartsWith(Get(attr, "vercond"), <<"#", "N", "I">>)
            /\ ~StartsWith(Get(attr, "vercond"), <<"#", "B", "S", "V", "E", "R", "#", " ", "#", "L", "T">>)
    THEN FALSE
    ELSE IF Has(attr, "cond") /\ attr["cond"] = <<"#", "B", "S", "S", "T", "R", "E", "A", "M", "H", "E", "A", "D", "E", "R", "#">> THEN FALSE
    ELSE TRUE

(***************************************************************************)
(* types.py                                                                *)
(***************************************************************************)
\* _BUILTIN_TYPES as a list of (key, value) pairs
BUILTIN_TYPES == <<
    <<<<"u", "i", "n", "t", "6", "4">>, <<"u", "6", "4">>>>, <<<<"i", "n", "t", "6", "4">>, <<"i", "6", "4">>>>, <<<<"u", "l", "i", "t", "t", "l", "e", "3", "2">>, <<"u", "3", "2">>>>,
    <<<<"u", "i", "n", "t">>, <<"u", "3", "2">>>>, <<<<"i", "n", "t">>, <<"i", "3", "2">>>>, <<<<"u", "s", "h", "o", "r", "t">>, <<"u", "1", "6">>>>,
    <<<<"s", "h", "o", "r", "t">>, <<"i", "1", "6">>>>, <<<<"c", "h", "a", "r">>, <<"i", "8">>>>, <<<<"b", "y", "t", "e">>, <<"u", "8">>>>,
    <<<<"b", "o", "o", "l">>, <<"b", "o", "o", "l">>>>, <<<<"f", "l", "o", "a", "t">>, <<"f", "3", "2">>>>, <<<<"h", "f", "l", "o", "a", "t">>, <<"f", "1", "6">>>>,
    <<<<"s", "t", "r", "i", "n", "g">>, <<"N", "i", "S", "t", "r", "i", "n", "g">>>>, <<<<"#", "T", "#">>, <<"T">>>> >>

RUST_KEYWORDS == {
    <<"a", "s">>, <<"b", "r", "e", "a", "k">>, <<"c", "o", "n", "s", "t">>, <<"c", "o", "n", "t", "i", "n", "u", "e">>, <<"c", "r", "a", "t", "e">>, <<"e", "l", "s", "e">>, <<"e", "n", "u", "m">>, <<"e", "x", "t", "e", "r", "n">>,
    <<"f", "a", "l", "s", "e">>, <<"f", "n">>, <<"f", "o", "r">>, <<"i", "f">>, <<"i", "m", "p", "l">>, <<"i", "n">>, <<"l", "e", "t">>, <<"l", "o", "o", "p">>, <<"m", "a", "t", "c", "h">>, <<"m", "o", "d">>,
    <<"m", "o", "v", "e">>, <<"m", "u", "t">>, <<"p", "u", "b">>, <<"r", "e", "f">>, <<"r", "e", "t", "u", "r", "n">>, <<"s", "e", "l", "f">>, <<"S", "e", "l", "f">>, <<"s", "t", "a", "t", "i", "c">>, <<"s", "t", "r", "u", "c", "t">>,
    <<"s", "u", "p", "e", "r">>, <<"t", "r", "a", "i", "t">>, <<"t", "r", "u", "e">>, <<"t", "y", "p", "e">>, <<"u", "n", "s", "a", "f", "e">>, <<"u", "s", "e">>, <<"w", "h", "e", "r", "e">>, <<"w", "h", "i", "l", "e">>, <<"a", "s", "y", "n", "c">>,
    <<"a", "w", "a", "i", "t">>, <<"d", "y", "n">>, <<"a", "b", "s", "t", "r", "a", "c", "t">>, <<"b", "e", "c", "o", "m", "e">>, <<"b", "o", "x">>, <<"d", "o">>, <<"f", "i", "n", "a", "l">>, <<"m", "a", "c", "r", "o">>,
    <<"o", "v", "e", "r", "r", "i", "d", "e">>, <<"p", "r", "i", "v">>, <<"t", "y", "p", "e", "o", "f">>, <<"u", "n", "s", "i", "z", "e", "d">>, <<"v", "i", "r", "t", "u", "a", "l">>, <<"y", "i", "e", "l", "d">>, <<"t", "r", "y">> }

\* name[0].upper() + name[1:], for a non-empty name
convert_struct_name(name) == <<UpperChar(name[1])>> \o Tail(name)

convert_field_name(name) ==
    IF name = <<"#", "A", "R", "G", "#">> THEN <<"a", "r", "g">>
    ELSE IF Contains(name, <<".">>)
    THEN <<"F", "i", "l", "e", "V", "e", "r", "s", "i", "o", "n", "(">> \o Join(<<",", " ">>, Split(name, <<".">>)) \o <<")">>
    ELSE LET n == ReplaceChar(ReplaceChar(Lower(name), " ", <<"_">>), ":", <<>>)
         IN  IF n \in RUST_KEYWORDS THEN <<"r", "#">> \o n ELSE n

\* _BUILTIN_TYPES.get(ty, _convert_struct_name(ty)); None stays None
convert_type(ty) ==
    IF ty = None THEN None
    ELSE IF \E i \in DOMAIN BUILTIN_TYPES : BUILTIN_TYPES[i][1] = ty
    THEN BUILTIN_TYPES[CHOOSE i \in DOMAIN BUILTIN_TYPES : BUILTIN_TYPES[i][1] = ty][2]
    ELSE convert_struct_name(ty)

\* Type.from_xml(attrib)
Type_from_xml(attr) ==
    [ty    |-> convert_type(attr["type"]),
     t_arg |-> convert_type(Get(attr, "template")),
     arr1  |-> Get(attr, "arr1"),
     arr2  |-> Get(attr, "arr2"),
     arg   |-> Get(attr, "arg"),
     cond  |-> Get(attr, "cond"),
     ver1  |-> Get(attr, "ver1"),
     ver2  |-> Get(attr, "ver2")]

\* Type.matches(self, other)
Type_matches(self, other) ==
    /\ self.ty = other.ty
    /\ self.t_arg = other.t_arg
    /\ self.arr1 = other.arr1
    /\ self.arr2 = other.arr2
    /\ self.arg = other.arg

\* Type.is_optional(self)
Type_is_optional(self) == self.cond # None

\* Python truthiness of an optional string: None and the empty string are false
Truthy(x) == x # None /\ x # <<>>

\* The ordered mapping obj.fields: a list of (name, type) items in insertion order
FieldNames(fs) == {fs[i].name : i \in DOMAIN fs}
FieldIndex(fs, name) == CHOOSE i \in DOMAIN fs : fs[i].name = name
FieldOf(fs, name) == fs[FieldIndex(fs, name)].type

\* The merge that keeps one copy of two identical conditions
MergedCond_dedup(oldCond, newCond) ==
    IF oldCond = newCond THEN oldCond
    ELSE <<"(">> \o Str(oldCond) \o <<")", " ", "#", "O", "R", "#", " ", "(">> \o Str(newCond) \o <<")">>

\* f"({old.cond}) #OR# ({field.cond})"
MergedCond(oldCond, newCond) ==
    <<"(">> \o Str(oldCond) \o <<")", " ", "#", "O", "R", "#", " ", "(">> \o Str(newCond) \o <<")">>

\* One iteration of the loop of Compound.from_xml over an emitted member:
\* the fields after it.
Compound_field_merging(fs, attr) ==
    LET name  == convert_field_name(attr["name"])
        field == Type_from_xml(attr)
    IN  IF name \in FieldNames(fs)
        THEN [fs EXCEPT ![FieldIndex(fs, name)].type.cond =
                            MergedCond(FieldOf(fs, name).cond, field.cond)]
        ELSE Append(fs, [name |-> name, type |-> field])

Compound_field(fs, attr) ==
    LET name == convert_field_name(attr["name"])
    IN  IF name \in FieldNames(fs)
        THEN fs
        ELSE Append(fs, [name |-> name, type |-> Type_from_xml(attr)])

\* One iteration of the loop of NiObject.from_xml over an emitted member:
\* the fields after it and the diagnostics it prints.
NiObject_field_last_wins(obj, fs, attr) ==
    LET name  == convert_field_name(attr["name"])
        field == Type_from_xml(attr)
    IN  IF name \in FieldNames(fs)
        THEN LET old == FieldOf(fs, name)
             IN  IF ~Truthy(field.cond) /\ ~Truthy(old.cond)
                 THEN [fields |-> fs, printed |-> <<>>]
                 ELSE IF ~Type_matches(field, old) /\ (obj # <<"N", "i", "P", "a", "l", "e", "t", "t", "e">> \/ name # <<"p", "a", "l", "e", "t", "t", "e">>)
                 THEN [fields  |-> [fs EXCEPT ![FieldIndex(fs, name)].type = field],
                       printed |-> <<name>>]
                 ELSE [fields  |-> [fs EXCEPT ![FieldIndex(fs, name)].type.cond =
                                                  MergedCond(old.cond, field.cond)],
                       printed |-> <<>>]
        ELSE IF obj = <<"N", "i", "P", "a", "l", "e", "t", "t", "e">> /\ name = <<"p", "a", "l", "e", "t", "t", "e">>
        THEN [fields  |-> Append(fs, [name |-> name,
                                      type |-> [field EXCEPT !.arr1 = <<"N", "u", "m", " ", "E", "n", "t", "r", "i", "e", "s">>,
                                                             !.cond = None]]),
              printed |-> <<>>]
        ELSE [fields |-> Append(fs, [name |-> name, type |-> field]), printed |-> <<>>]

NiObject_field(obj, fs, attr) ==
    LET name  == convert_field_name(attr["name"])
        field == Type_from_xml(attr)
    IN  IF name \in FieldNames(fs)
        THEN LET old == FieldOf(fs, name)
             IN  IF ~Truthy(field.cond) /\ ~Truthy(old.cond)
                 THEN [fields |-> fs, printed |-> <<>>]
                 ELSE IF ~Type_matches(field, old) /\ (obj # <<"N", "i", "P", "a", "l", "e", "t", "t", "e">> \/ name # <<"p", "a", "l", "e", "t", "t", "e">>)
                 THEN [fields |-> fs, printed |-> <<name>>]
                 ELSE [fields  |-> [fs EXCEPT ![FieldIndex(fs, name)].type.cond =
                                                  MergedCond(old.cond, field.cond)],
                       printed |-> <<>>]
        ELSE IF obj = <<"N", "i", "P", "a", "l", "e", "t", "t", "e">> /\ name = <<"p", "a", "l", "e", "t", "t", "e">>
        THEN [fields  |-> Append(fs, [name |-> name,
                                      type |-> [field EXCEPT !.arr1 = <<"N", "u", "m", " ", "E", "n", "t", "r", "i", "e", "s">>,
                                                             !.cond = None]]),
              printed |-> <<>>]
        ELSE [fields |-> Append(fs, [name |-> name, type |-> field]), printed |-> <<>>]

(***************************************************************************)
(* expr.py                                                                 *)
(***************************************************************************)
\* OPERATORS as a list of (token, native spelling) pairs, in table order
OPERATORS == <<
    <<<<"#", "A", "D", "D", "#">>, <<"+">>>>, <<<<"#", "S", "U", "B", "#">>, <<"-">>>>, <<<<"#", "M", "U", "L", "#">>, <<"*">>>>, <<<<"#", "D", "I", "V", "#">>, <<"/">>>>,
    <<<<"#", "A", "N", "D", "#">>, <<"&", "&">>>>, <<<<"#", "O", "R", "#">>, <<"|", "|">>>>, <<<<"#", "L", "T", "#">>, <<"<">>>>, <<<<"#", "G", "T", "#">>, <<">">>>>,
    <<<<"#", "L", "T", "E", "#">>, <<"<", "=">>>>, <<<<"#", "G", "T", "E", "#">>, <<">", "=">>>>, <<<<"#", "E", "Q", "#">>, <<"=", "=">>>>, <<<<"#", "N", "E", "Q", "#">>, <<"!", "=">>>>,
    <<<<"#", "R", "S", "H", "#">>, <<">", ">">>>>, <<<<"#", "L", "S", "H", "#">>, <<"<", "<">>>>, <<<<"#", "B", "I", "T", "A", "N", "D", "#">>, <<"&">>>>, <<<<"#", "B", "I", "T", "O", "R", "#">>, <<"|">>>> >>

\* OPERATORS.get(op, op)
OperatorsGet(op) ==
    IF \E i \in DOMAIN OPERATORS : OPERATORS[i][1] = op
    THEN OPERATORS[CHOOSE i \in DOMAIN OPERATORS : OPERATORS[i][1] = op][2]
    ELSE op

contains_any_operator(str) ==
    \E i \in DOMAIN OPERATORS : Contains(str, OPERATORS[i][1]) \/ Contains(str, OPERATORS[i][2])

Max(S) == CHOOSE x \in S : \A y \in S : y <= x

\* The length of the longest run of word (w = TRUE) or non-word (w = FALSE)
\* characters of s that starts at position p
RECURSIVE Run(_, _, _)
Run(s, p, w) ==
    IF p <= Len(s) /\ IsWord(s[p]) = w THEN 1 + Run(s, p + 1, w) ELSE 0

\* Counting down: <<hi, hi - 1, ..., lo>>
Down(hi, lo) == [k \in 1..(hi - lo + 1) |-> hi - k + 1]

\* The operator group (\W\w*\W|\W*) tried at position p: the positions just
\* after the group, in the order in which the backtracking matcher tries
\* them.  First alternative: one non-word character, the longest run of word
\* characters that a non-word character follows (shorter runs next), and that
\* non-word character.  Second alternative: non-word characters, longest
\* run first, down to none.
OpEnds(s, p) ==
    LET first  == IF p <= Len(s) /\ ~IsWord(s[p])
                  THEN LET runs == Down(Run(s, p + 1, TRUE), 0)
                           ok(k) == p + 1 + k <= Len(s) /\ ~IsWord(s[p + 1 + k])
                           kept == SelectSeq(runs, ok)
                       IN  [x \in DOMAIN kept |-> p + 2 + kept[x]]
                  ELSE <<>>
        runs2  == Down(Run(s, p, FALSE), 0)
        second == [x \in DOMAIN runs2 |-> p + runs2[x]]
    IN  first \o second

\* The first element of a sequence of positions; 0 when it is empty
FirstOrZero(ends) == IF ends = <<>> THEN 0 ELSE ends[1]

\* The first position e of OpEnds(s, p) that Rest(e) accepts; 0 when none
FirstEnd(s, p, Rest(_)) == FirstOrZero(SelectSeq(OpEnds(s, p), Rest))

At(s, p, c) == p >= 1 /\ p <= Len(s) /\ s[p] = c

\* The positions q >= from of a closing parenthesis: where a final (.*)\) may end
Closers(s, from) == {q \in from..Len(s) : s[q] = ")"}

NoMatch == [matched |-> FALSE]

\* The groups of a match of EXPR_RE_1 or EXPR_RE_2: the first group ends
\* before the parenthesis at i, the second before j, the operator lies
\* between o and e, and the last group between r and the parenthesis at q
Groups(s, i, j, o, e, r, q) ==
    [matched |-> TRUE,
     g1 |-> SubSeq(s, 1, i - 1),
     g2 |-> SubSeq(s, i + 1, j - 1),
     g3 |-> SubSeq(s, o, e - 1),
     g4 |-> SubSeq(s, r, q - 1),
     end |-> q]

\* EXPR_RE_1.search(s): (.*)\((.*)\) (\W\w*\W|\W*) \((.*)\)
\* Every group but the operator is a greedy (.*): the matcher takes the
\* longest first group for which the rest can match, then the longest second
\* group, then the first operator alternative, then the longest last group.
\* A search that matches from a later start also matches from the start of
\* the string with a longer first group, so the match starts at position 1.
Search1(s) ==
    LET Rest(e) == At(s, e, " ") /\ At(s, e + 1, "(") /\ Closers(s, e + 2) # {}
        Js(i) == {j \in (i + 1)..Len(s) :
                     At(s, j, ")") /\ At(s, j + 1, " ") /\ FirstEnd(s, j + 2, Rest) # 0}
        Is == {i \in 1..Len(s) : s[i] = "(" /\ Js(i) # {}}
        AtE(i, j, e) == Groups(s, i, j, j + 2, e, e + 2, Max(Closers(s, e + 2)))
        AtJ(i, j) == AtE(i, j, FirstEnd(s, j + 2, Rest))
        AtI(i) == AtJ(i, Max(Js(i)))
    IN  IF Is = {} THEN NoMatch ELSE AtI(Max(Is))

\* EXPR_RE_2.search(s): (.*)\((.*) (\W\w*\W|\W*) (.*)\)
Search2(s) ==
    LET Rest(e) == At(s, e, " ") /\ Closers(s, e + 1) # {}
        Js(i) == {j \in (i + 1)..Len(s) : At(s, j, " ") /\ FirstEnd(s, j + 1, Rest) # 0}
        Is == {i \in 1..Len(s) : s[i] = "(" /\ Js(i) # {}}
        AtE(i, j, e) == Groups(s, i, j, j + 1, e, e + 1, Max(Closers(s, e + 1)))
        AtJ(i, j) == AtE(i, j, FirstEnd(s, j + 1, Rest))
        AtI(i) == AtJ(i, Max(Js(i)))
    IN  IF Is = {} THEN NoMatch ELSE AtI(Max(Is))

\* EXPR_RE_3.search(s): (.*) (\W\w*\W|\W*) (.*)
Search3(s) ==
    LET Rest(e) == At(s, e, " ")
        Is == {i \in 1..Len(s) : s[i] = " " /\ FirstEnd(s, i + 1, Rest) # 0}
        AtE(i, e) == [matched |-> TRUE,
                      g1 |-> SubSeq(s, 1, i - 1),
                      g2 |-> SubSeq(s, i + 1, e - 1),
                      g3 |-> SubSeq(s, e + 1, Len(s)),
                      end |-> Len(s)]
        AtI(i) == AtE(i, FirstEnd(s, i + 1, Rest))
    IN  IF Is = {} THEN NoMatch ELSE AtI(Max(Is))

\* The exception that leaves parse_expression when no pattern matches
\* (result is None and result.group raises)
Error == <<"AttributeError">>

\* The result of the first search that matches, with the group indices the
\* code selects: unary, left operand, operator, right operand
FirstOf(r1, r2, r3) ==
    IF r1.matched
    THEN [matched |-> TRUE, shape |-> 1, unary |-> r1.g1, left |-> r1.g2,
          op |-> r1.g3, right |-> r1.g4, end |-> r1.end]
    ELSE IF r2.matched
    THEN [matched |-> TRUE, shape |-> 2, unary |-> r2.g1, left |-> r2.g2,
          op |-> r2.g3, right |-> r2.g4, end |-> r2.end]
    ELSE IF r3.matched
    THEN [matched |-> TRUE, shape |-> 3, unary |-> None, left |-> r3.g1,
          op |-> r3.g2, right |-> r3.g3, end |-> r3.end]
    ELSE NoMatch

\* The pattern cascade: EXPR_RE_1, then EXPR_RE_2, then EXPR_RE_3
FirstMatch(s) == FirstOf(Search1(s), Search2(s), Search3(s))

\* if " " in e and not e.startswith("FileVersion"): e = f"({e})"
Parenthesize(e) ==
    IF Contains(e, <<" ">>) /\ ~StartsWith(e, <<"F", "i", "l", "e", "V", "e", "r", "s", "i", "o", "n">>) THEN <<"(">> \o e \o <<")">> ELSE e

\* "(" in expr or ")" in expr or _contains_any_operator(expr)
HasOperator(str) ==
    Contains(str, <<"(">>) \/ Contains(str, <<")">>) \/ contains_any_operator(str)

RECURSIVE parse_expression(_)

\* res = f"{expr1} {op} {expr2}"; if unary: res = f"{unary}({res})"
Reassemble(unary, expr1, op, expr2) ==
    IF unary # None /\ unary # <<>>
    THEN unary \o <<"(">> \o expr1 \o <<" ">> \o op \o <<" ">> \o expr2 \o <<")">>
    ELSE expr1 \o <<" ">> \o op \o <<" ">> \o expr2

\* The second operand, once parsed: an exception of the recursive call leaves
\* the function, otherwise the operand is parenthesized and the result built
ParseRight(m, expr1, expr2) ==
    IF expr2 = Error THEN Error
    ELSE Reassemble(m.unary, expr1, OperatorsGet(m.op), Parenthesize(expr2))

\* The first operand, once parsed: parenthesized, returned alone when the
\* operator is |, otherwise followed by the parse of the second operand
ParseLeft(m, expr1) ==
    IF expr1 = Error THEN Error
    ELSE IF RStrip(LStrip(m.op, {" "}), {" "}) = <<"|">> THEN Parenthesize(expr1)
    ELSE ParseRight(m, Parenthesize(expr1), parse_expression(m.right))

\* The compound branch for the match m of the first pattern that matches;
\* result.group on None raises when none does
ParseMatch(m) ==
    IF ~m.matched THEN Error ELSE ParseLeft(m, parse_expression(m.left))

parse_expression(str) ==
    IF HasOperator(str) THEN ParseMatch(FirstMatch(str))
    ELSE IF ~IsNumeric(str) THEN convert_field_name(str) ELSE str

(***************************************************************************)
(* Inputs of the schema model builder                                      *)
(***************************************************************************)
\* The number of member entries of one niobject entry
MaxEntries == 3
\* The number of member entries of one compound entry
MaxCompoundEntries == 2

\* A dictionary from a record whose absent keys hold None
Dict(r) == [k \in {k \in DOMAIN r : r[k] # None} |-> r[k]]

EntryNames == {<<"N", "i", "P", "a", "l", "e", "t", "t", "e">>, <<"n", "i", "N", "o", "d", "e">>}
Conds == {None, <<"A">>, <<"B">>}

Member(name, type, template, arr1, arr2, arg, cond, ver1, vercond) ==
    Dict([name |-> name, type |-> type, template |-> template, arr1 |-> arr1,
          arr2 |-> arr2, arg |-> arg, cond |-> cond, ver1 |-> ver1, vercond |-> vercond])

\* A base shape and the shapes that differ from it in one attribute that
\* Type.matches compares: type, template, arr1, arr2, arg
Shapes == {
    <<<<"u", "i", "n", "t">>,  None,      None,  None,  None>>,
    <<<<"f", "l", "o", "a", "t">>, None,      None,  None,  None>>,
    <<<<"u", "i", "n", "t">>,  <<"f", "l", "o", "a", "t">>, None,  None,  None>>,
    <<<<"u", "i", "n", "t">>,  None,      <<"3">>, None,  None>>,
    <<<<"u", "i", "n", "t">>,  None,      None,  <<"2">>, None>>,
    <<<<"u", "i", "n", "t">>,  None,      None,  None,  <<"1">>>> }

\* Members that pass should_emit_member: every shape under two names with
\* every condition; a name that differs in case only, a type that converts
\* to the base type, and a version range
EmittedMembers ==
    {Member(n, s[1], s[2], s[3], s[4], s[5], c, None, None) :
        n \in {<<"x">>, <<"p", "a", "l", "e", "t", "t", "e">>}, s \in Shapes, c \in Conds}
    \cup {Member(<<"X">>, <<"u", "i", "n", "t">>, None, None, None, None, <<"A">>, None, None),
          Member(<<"x">>, <<"u", "l", "i", "t", "t", "l", "e", "3", "2">>, None, None, None, None, <<"B">>, None, None),
          Member(<<"x">>, <<"u", "i", "n", "t">>, None, None, None, None, <<"B">>, <<"2", "0", ".", "2", ".", "0", ".", "7">>, None)}

\* Members that should_emit_member filters out
FilteredMembers == {
    Member(<<"x">>, <<"u", "i", "n", "t">>, None, None, None, None, <<"A">>, <<"2", "0", ".", "7", ".", "0", ".", "0">>, None),
    Member(<<"x">>, <<"u", "i", "n", "t">>, None, None, None, None, <<"A">>, None, <<"#", "B", "S", "V", "E", "R", "#", " ", "#", "G", "T", "#", " ", "0">>),
    Member(<<"x">>, <<"u", "i", "n", "t">>, None, None, None, None, <<"#", "B", "S", "S", "T", "R", "E", "A", "M", "H", "E", "A", "D", "E", "R", "#">>, None, None) }

Members == EmittedMembers \cup FilteredMembers

(***************************************************************************)
(* The schema model builder                                                *)
(***************************************************************************)
IdleVersion == version = None /\ string = None /\ relation = "NONE"
IdlePredicate == attrib = None /\ emit = FALSE
IdleBuilder ==
    objName = None /\ entries = <<>> /\ fields = <<>> /\ reports = <<>> /\ count = 0
IdleExpr == tree = None /\ native = FALSE /\ expr = None /\ match = NoMatch /\ result = None

\* filter(lambda f: should_emit_member(f.attrib), entry) and the loop body,
\* for one member entry
NiObject_entry(obj, fs, f) ==
    IF should_emit_member(f) THEN NiObject_field(obj, fs, f)
    ELSE [fields |-> fs, printed |-> <<>>]

Compound_entry(fs, f) ==
    IF should_emit_member(f) THEN Compound_field(fs, f) ELSE fs

\* NiObject.from_xml, before the loop
Init ==
    /\ \E n \in EntryNames : objName = convert_struct_name(n)
    /\ entries = <<>>
    /\ fields = <<>>
    /\ reports = <<>>
    /\ count = 0
    /\ done = FALSE
    /\ IdleVersion /\ IdlePredicate /\ IdleExpr

\* NiObject.from_xml: one entry of the loop, filter included
NiObject_from_xml(f) ==
    /\ count < MaxEntries
    /\ count' = count + 1
    /\ fields' = NiObject_entry(objName, fields, f).fields
    /\ reports' = reports \o NiObject_entry(objName, fields, f).printed
    /\ UNCHANGED <<objName, entries>>
    /\ UNCHANGED <<version, string, relation, attrib, emit, tree, native, expr, match, result, done>>

Next == \E f \in Members : NiObject_from_xml(f)

Spec == Init /\ [][Next]_vars

\* Compound.from_xml, before the loop
InitCompound ==
    /\ \E n \in EntryNames : objName = convert_type(n)
    /\ entries = <<>>
    /\ fields = <<>>
    /\ reports = <<>>
    /\ count = 0
    /\ done = FALSE
    /\ IdleVersion /\ IdlePredicate /\ IdleExpr

\* Compound.from_xml: one entry of the loop, filter included; entries keeps
\* the member entries read so far
Compound_from_xml(f) ==
    /\ count < MaxCompoundEntries
    /\ count' = count + 1
    /\ entries' = Append(entries, f)
    /\ fields' = Compound_entry(fields, f)
    /\ UNCHANGED <<objName, reports>>
    /\ UNCHANGED <<version, string, relation, attrib, emit, tree, native, expr, match, result, done>>

SpecCompound == InitCompound /\ [][\E f \in Members : Compound_from_xml(f)]_vars

(***************************************************************************)
(* check_version                                                           *)
(***************************************************************************)
\* Version strings: one to four components, separated by "." or by "_",
\* with or without the leading V
Majors == {<<"2", "0">>, <<"4">>}
Minors == {<<"0">>, <<"1">>, <<"2">>, <<"6">>}
Micros == {<<"0">>, <<"1">>}
Patches == {<<"0">>, <<"3">>, <<"4">>, <<"7">>, <<"8">>}

VersionParts ==
    {<<a>> : a \in Majors}
        \cup {<<a, b>> : a \in Majors, b \in Minors}
        \cup {<<a, b, c>> : a \in Majors, b \in Minors, c \in Micros}
        \cup {<<a, b, c, d>> : a \in Majors, b \in Minors, c \in Micros, d \in Patches}

VersionStrings ==
    {v \o Join(sep, parts) : v \in {<<>>, <<"V">>}, sep \in {<<".">>, <<"_">>}, parts \in VersionParts}

InitVersion ==
    /\ version \in Range(TARGET_VERSIONS)
    /\ string \in VersionStrings
    /\ relation = "NONE"
    /\ done = FALSE
    /\ IdlePredicate /\ IdleBuilder /\ IdleExpr

CheckVersion ==
    /\ ~done
    /\ relation' = check_version(version, string)
    /\ done' = TRUE
    /\ UNCHANGED <<version, string, attrib, emit, objName, entries, fields, reports, count,
                   tree, native, expr, match, result>>

SpecVersion == InitVersion /\ [][CheckVersion]_vars

(***************************************************************************)
(* should_emit_struct                                                      *)
(***************************************************************************)
StructAttribs ==
    {Dict([since |-> s, until |-> u, versions |-> v, module |-> m, name |-> n]) :
        s \in {None, <<"1", "0", ".", "0", ".", "1", ".", "0">>, <<"2", "0", ".", "2", ".", "0", ".", "8">>, <<"V", "2", "0", "_", "3", "_", "0", "_", "9">>, <<"2", "0", ".", "6", ".", "0", ".", "1">>},
        u \in {None, <<"1", "0", ".", "1", ".", "0", ".", "0">>, <<"2", "0", ".", "2", ".", "0", ".", "7">>, <<"3", "0", ".", "0", ".", "0", ".", "0">>},
        v \in {None, <<"1", "0", ".", "0", ".", "1", ".", "0">>, <<"2", "0", ".", "2", ".", "0", ".", "7">>, <<"1", "0", ".", "0", ".", "1", ".", "0", " ", "2", "0", ".", "2", ".", "0", ".", "7">>, <<"#", "B", "E", "T", "H", "E", "S", "D", "A", "#">>},
        m \in {None, <<"N", "i", "M", "a", "i", "n">>, <<"B", "S", "H", "a", "v", "o", "k">>},
        n \in {None, <<"N", "i", "N", "o", "d", "e">>, <<"R", "e", "n", "d", "e", "r", "e", "r", "I", "D">>, <<"N", "i", "P", "h", "y", "s", "X", "P", "r", "o", "p">>, <<"b", "h", "k", "S", "h", "a", "p", "e">>}}

InitStruct ==
    /\ attrib \in StructAttribs
    /\ emit = FALSE
    /\ done = FALSE
    /\ IdleVersion /\ IdleBuilder /\ IdleExpr

ShouldEmitStruct ==
    /\ ~done
    /\ emit' = should_emit_struct(attrib)
    /\ done' = TRUE
    /\ UNCHANGED <<version, string, relation, attrib, objName, entries, fields, reports, count,
                   tree, native, expr, match, result>>

SpecStruct == InitStruct /\ [][ShouldEmitStruct]_vars

(***************************************************************************)
(* should_emit_member                                                      *)
(***************************************************************************)
MemberAttribs ==
    {Dict([ver1 |-> a, ver2 |-> b, vercond |-> vc, cond |-> c]) :
        a \in {None, <<"1", "0", ".", "0", ".", "1", ".", "0">>, <<"2", "0", ".", "2", ".", "0", ".", "8">>, <<"V", "2", "0", "_", "3", "_", "0", "_", "9">>, <<"2", "0", ".", "6", ".", "0", ".", "0">>, <<"2", "0", ".", "7", ".", "0", ".", "0">>},
        b \in {None, <<"1", "0", ".", "0", ".", "1", ".", "0">>, <<"2", "0", ".", "1", ".", "0", ".", "2">>, <<"2", "0", ".", "2", ".", "0", ".", "7">>, <<"2", "0", ".", "5", ".", "0", ".", "0">>, <<"3", "0", ".", "0", ".", "0", ".", "0">>},
        vc \in {None, <<"#", "N", "I", "S", "T", "R", "E", "A", "M", "#">>, <<"!", "#", "B", "S", "2", "0", "2", "#">>, <<"#", "N", "I", "_", "B", "S", "_", "L", "T", "E", "_", "F", "O", "3", "#">>, <<"#", "B", "S", "V", "E", "R", "#", " ", "#", "L", "T", "#", " ", "1", "0">>,
                <<"#", "B", "S", "V", "E", "R", "#", " ", "#", "G", "T", "#", " ", "2", "6">>, <<"#", "B", "S", "_", "G", "T", "E", "_", "1", "3", "0", "#">>},
        c \in {None, <<"A">>, <<"#", "B", "S", "S", "T", "R", "E", "A", "M", "H", "E", "A", "D", "E", "R", "#">>}}

InitMember ==
    /\ attrib \in MemberAttribs
    /\ emit = FALSE
    /\ done = FALSE
    /\ IdleVersion /\ IdleBuilder /\ IdleExpr

ShouldEmitMember ==
    /\ ~done
    /\ emit' = should_emit_member(attrib)
    /\ done' = TRUE
    /\ UNCHANGED <<version, string, relation, attrib, objName, entries, fields, reports, count,
                   tree, native, expr, match, result>>

SpecMember == InitMember /\ [][ShouldEmitMember]_vars

(***************************************************************************)
(* parse_expression                                                        *)
(***************************************************************************)
\* Well-formed expressions as trees.  A leaf is an identifier or a number; a
\* node is a binary operator (an index of OPERATORS) with two operands,
\* written bare (L OP R), with each operand parenthesized (U(L) OP (R)) or
\* with the whole parenthesized (U(L OP R)), U an optional unary prefix.
Leaf(text) == <<"leaf", text>>
Node(unary, form, op, l, r) == <<"node", unary, form, op, l, r>>

RECURSIVE Render(_, _)
Render(t, nat) ==
    IF t[1] = "leaf" THEN t[2]
    ELSE LET o == OPERATORS[t[4]][IF nat THEN 2 ELSE 1]
             l == Render(t[5], nat)
             r == Render(t[6], nat)
         IN  IF t[3] = "bare" THEN l \o <<" ">> \o o \o <<" ">> \o r
             ELSE IF t[3] = "parens"
             THEN t[2] \o <<"(">> \o l \o <<")", " ">> \o o \o <<" ", "(">> \o r \o <<")">>
             ELSE t[2] \o <<"(">> \o l \o <<" ">> \o o \o <<" ">> \o r \o <<")">>

Leaves == {Leaf(<<"a">>), Leaf(<<"B">>), Leaf(<<"7">>)}

Forms == {<<<<>>, "bare">>, <<<<>>, "parens">>, <<<<"!">>, "parens">>,
          <<<<>>, "wrapped">>, <<<<"!">>, "wrapped">>}

\* Operators over leaves
FlatTrees ==
    {Node(f[1], f[2], op, l, r) : f \in Forms, op \in DOMAIN OPERATORS, l \in Leaves, r \in Leaves}

\* Operands of a nested expression: a leaf, or #ADD# / #OR# over two leaves
InnerTrees ==
    {Node(<<>>, form, op, Leaf(<<"a">>), Leaf(<<"b">>)) :
        form \in {"bare", "parens", "wrapped"}, op \in {1, 6}}

\* An operand that is written without parentheses of its own must delimit
\* itself: a leaf or a wholly parenthesized expression
Operands(form) ==
    {Leaf(<<"c">>)} \cup
        IF form = "parens" THEN InnerTrees ELSE {t \in InnerTrees : t[3] = "wrapped"}

NestedTrees ==
    {Node(f[1], f[2], op, o[1], o[2]) :
        f \in Forms, op \in DOMAIN OPERATORS,
        o \in UNION {Operands(g) \X Operands(g) : g \in {"bare", "parens", "wrapped"}}}

Trees == Leaves \cup FlatTrees \cup {t \in NestedTrees : <<t[5], t[6]>> \in Operands(t[3]) \X Operands(t[3])}

InitExpr ==
    /\ tree \in Trees
    /\ native \in BOOLEAN
    /\ expr = Render(tree, native)
    /\ match = NoMatch
    /\ result = None
    /\ done = FALSE
    /\ IdleVersion /\ IdlePredicate /\ IdleBuilder

\* parse_expression(expr); match is the match of the outermost call
ParseExpression ==
    /\ ~done
    /\ match' = IF HasOperator(expr) THEN FirstMatch(expr) ELSE NoMatch
    /\ result' = parse_expression(expr)
    /\ done' = TRUE
    /\ UNCHANGED <<version, string, relation, attrib, emit, objName, entries, fields, reports,
                   count, tree, native, expr>>

SpecExpr == InitExpr /\ [][ParseExpression]_vars

(***************************************************************************)
(* Properties of the version predicate engine                              *)
(***************************************************************************)
\* The version a string denotes and a target, as 4-tuples, and the strict
\* lexicographic order on them
VersionOf(str) ==
    LET parts == split_version_string(str)
    IN  <<VersionPart(parts, 0), VersionPart(parts, 1), VersionPart(parts, 2), VersionPart(parts, 3)>>

TargetTuple(v) == <<v.major, v.minor, v.micro, v.patch>>

Precedes(a, b) == \E k \in 1..4 : a[k] < b[k] /\ \A j \in 1..(k - 1) : a[j] = b[j]

Targets == {TargetTuple(TARGET_VERSIONS[i]) : i \in DOMAIN TARGET_VERSIONS}

\* C2, as stated: check_version returns LOWER when the target precedes the
\* version of the string, EXACT when the two are equal, HIGHER when the target
\* follows it; LOWER for target (20,1,0,3) against "20.1.0.4".
C2_TargetRelativeToString ==
    done =>
        LET s == VersionOf(string)
            t == TargetTuple(version)
        IN  /\ (relation = "LOWER") <=> Precedes(t, s)
            /\ (relation = "EXACT") <=> (s = t)
            /\ (relation = "HIGHER") <=> Precedes(s, t)
            /\ (version = VersionInfo(20, 1, 0, 3) /\ string = <<"2", "0", ".", "1", ".", "0", ".", "4">>) => relation = "LOWER"

\* C2, amended: check_version returns the relation of the string to the
\* target, by strict lexicographic order over (major, minor, micro, patch):
\* LOWER when the version of the string precedes the target, EXACT when all
\* four components are equal, HIGHER when the version of the string follows
\* the target; HIGHER for target (20,1,0,3) against "20.1.0.4" and EXACT for
\* (20,2,0,7) against "20_2_0_7".
C2_StringRelativeToTarget ==
    done =>
        LET s == VersionOf(string)
            t == TargetTuple(version)
        IN  /\ (relation = "LOWER") <=> Precedes(s, t)
            /\ (relation = "EXACT") <=> (s = t)
            /\ (relation = "HIGHER") <=> Precedes(t, s)
            /\ (version = VersionInfo(20, 1, 0, 3) /\ string = <<"2", "0", ".", "1", ".", "0", ".", "4">>) => relation = "HIGHER"
            /\ (version = VersionInfo(20, 2, 0, 7) /\ string = <<"2", "0", "_", "2", "_", "0", "_", "7">>) => relation = "EXACT"

\* check_version has compared target (20,1,0,3) with "20.1.0.4"
C2_Witness ==
    /\ done
    /\ version = VersionInfo(20, 1, 0, 3)
    /\ string = <<"2", "0", ".", "1", ".", "0", ".", "4">>
    /\ relation = "HIGHER"

\* No outright exclusion of should_emit_struct applies: no versions
\* attribute, module and name not denylisted
NotExcluded(attr) ==
    /\ ~Has(attr, "versions")
    /\ ~(Has(attr, "module") /\ attr["module"] \in BETHESDA_MODULES)
    /\ ~(Has(attr, "name") /\ attr["name"] \in EXCLUDED_NAMES)
    /\ ~(Has(attr, "name") /\ Contains(Lower(attr["name"]), <<"p", "h", "y", "s", "x">>))
    /\ ~(Has(attr, "name") /\ StartsWith(attr["name"], <<"b", "h", "k">>))

\* C3: with no outright exclusion and a since attribute, should_emit_struct
\* returns True exactly when some target T is not earlier than since and,
\* when until is present, not later than until; with neither since nor
\* versions it returns True.
C3_SinceUntilRange ==
    (done /\ NotExcluded(attrib)) =>
        IF Has(attrib, "since")
        THEN emit <=> \E t \in Targets :
                         /\ ~Precedes(t, VersionOf(attrib["since"]))
                         /\ Has(attrib, "until") => ~Precedes(VersionOf(attrib["until"]), t)
        ELSE emit

\* C4, as stated: a versions value that is not a #-placeholder excludes the
\* structure even when a target matches a listed version; a placeholder
\* versions value does not exclude it by itself.
C4_NonGenericVersionsOnly ==
    (done /\ Has(attrib, "versions")) =>
        IF StartsWith(attrib["versions"], <<"#">>)
        THEN (~Has(attrib, "since") /\ NotExcluded([k \in DOMAIN attrib \ {"versions"} |-> attrib[k]]))
                 => emit
        ELSE ~emit

\* C4, amended: the outright versions exclusion applies to every versions
\* value: should_emit_struct returns False whenever the attributes hold a
\* versions attribute, placeholder or not, also when a target deployment
\* version exactly matches a listed version.
C4_AnyVersionsExcluded ==
    (done /\ Has(attrib, "versions")) => ~emit

\* should_emit_struct has returned for a placeholder versions value and no
\* other attribute
C4_Witness ==
    /\ done
    /\ DOMAIN attrib = {"versions"}
    /\ attrib["versions"] = <<"#", "B", "E", "T", "H", "E", "S", "D", "A", "#">>
    /\ ~emit

\* One target passes the ver1/ver2 range of the attributes
PassesRange(attr, t) ==
    /\ Has(attr, "ver1") => ~Precedes(t, VersionOf(attr["ver1"]))
    /\ Has(attr, "ver2") => ~Precedes(VersionOf(attr["ver2"]), t)

\* C5: without vercond and cond, should_emit_member returns False exactly
\* when every target fails the ver1/ver2 range, a target passing when it
\* satisfies both bounds itself; a field with ver1 = "20.7.0.0" is excluded.
C5_MemberRange ==
    (done /\ ~Has(attrib, "vercond") /\ ~Has(attrib, "cond")) =>
        /\ (~emit) <=> \A t \in Targets : ~PassesRange(attrib, t)
        /\ (Has(attrib, "ver1") /\ attrib["ver1"] = <<"2", "0", ".", "7", ".", "0", ".", "0">>) => ~emit

\* should_emit_member has excluded a field for which some target is not
\* below ver1 and some target is not above ver2, but no target is both
C5_Witness ==
    /\ done
    /\ DOMAIN attrib = {"ver1", "ver2"}
    /\ attrib["ver1"] = <<"2", "0", ".", "2", ".", "0", ".", "8">>
    /\ attrib["ver2"] = <<"2", "0", ".", "2", ".", "0", ".", "7">>
    /\ ~emit

(***************************************************************************)
(* Properties of the schema model builder                                  *)
(***************************************************************************)
\* The five attributes that make the shape of a field
SameShape(a, b) ==
    /\ a.ty = b.ty
    /\ a.t_arg = b.t_arg
    /\ a.arr1 = b.arr1
    /\ a.arr2 = b.arr2
    /\ a.arg = b.arg

\* The fields of a mapping that are stored under a name
Stored(fs, name) == {i \in DOMAIN fs : fs[i].name = name}

\* The emitted entries of a compound, in order, and the pairs (i, j) of them
\* that the round-trip scenario is about: the only two declarations of one
\* normalized name, of matching shape, each with a condition, the two
\* conditions different
EmittedEntries == SelectSeq(entries, should_emit_member)

EntryName(e) == convert_field_name(e["name"])

ScenarioPairs ==
    LET es == EmittedEntries
    IN  {p \in (DOMAIN es) \X (DOMAIN es) :
            /\ p[1] < p[2]
            /\ EntryName(es[p[1]]) = EntryName(es[p[2]])
            /\ \A k \in DOMAIN es : EntryName(es[k]) = EntryName(es[p[1]]) => k \in {p[1], p[2]}
            /\ SameShape(Type_from_xml(es[p[1]]), Type_from_xml(es[p[2]]))
            /\ Has(es[p[1]], "cond") /\ Has(es[p[2]], "cond")
            /\ es[p[1]]["cond"] # es[p[2]]["cond"]}

\* C6, as stated: a compound with two emitted declarations of one normalized
\* name x, of matching shape and with different conditions cond1 and cond2,
\* exposes exactly one field x, with the condition "(cond1) #OR# (cond2)".
C6_CompoundMergesConditions ==
    \A p \in ScenarioPairs :
        LET es == EmittedEntries
            name == EntryName(es[p[1]])
        IN  /\ Cardinality(Stored(fields, name)) = 1
            /\ FieldOf(fields, name).cond =
                   <<"(">> \o es[p[1]]["cond"] \o <<")", " ", "#", "O", "R", "#", " ", "(">> \o es[p[2]]["cond"] \o <<")">>

\* C6, amended: a compound with two emitted declarations of one normalized
\* name x, of matching shape and with different conditions cond1 and cond2,
\* exposes exactly one field x, and its condition is cond1, that of the first
\* declaration: a compound drops the later declaration and merges nothing.
C6_CompoundFirstDeclarationWins ==
    \A p \in ScenarioPairs :
        LET es == EmittedEntries
            name == EntryName(es[p[1]])
        IN  /\ Cardinality(Stored(fields, name)) = 1
            /\ FieldOf(fields, name).cond = es[p[1]]["cond"]

\* A compound has read x with condition B and then X, of the same shape, with
\* condition A
C6_Witness ==
    /\ ScenarioPairs = {<<1, 2>>}
    /\ entries[1]["name"] = <<"x">> /\ entries[1]["cond"] = <<"B">>
    /\ entries[2]["name"] = <<"X">> /\ entries[2]["cond"] = <<"A">>
    /\ Len(fields) = 1
    /\ fields[1].type.cond = <<"B">>

\* The members that redeclare a stored field of the object when they are the
\* next entry: emitted, and their normalized name is stored
Redeclarations ==
    IF count < MaxEntries
    THEN {d \in Members : should_emit_member(d) /\ EntryName(d) \in FieldNames(fields)}
    ELSE {}

\* C7: when the next emitted member redeclares a stored field, both carry a
\* condition and the shapes match, the object keeps the field, alone under
\* its name and in its place, with the condition "(c_old) #OR# (c_new)", c_old
\* the condition stored so far: "(A) #OR# (A)" for A and A, and a merged c_old
\* nested as the left operand.
C7_LiteralOrExpansion ==
    \A d \in Redeclarations :
        LET name  == EntryName(d)
            old   == FieldOf(fields, name)
            new   == Type_from_xml(d)
            after == NiObject_entry(objName, fields, d).fields
        IN  (old.cond # None /\ new.cond # None /\ SameShape(old, new)) =>
                /\ Len(after) = Len(fields)
                /\ \A i \in DOMAIN fields : after[i].name = fields[i].name
                /\ Cardinality(Stored(after, name)) = 1
                /\ FieldOf(after, name).cond =
                       <<"(">> \o old.cond \o <<")", " ", "#", "O", "R", "#", " ", "(">> \o new.cond \o <<")">>
                /\ (old.cond = <<"A">> /\ new.cond = <<"A">>) =>
                       FieldOf(after, name).cond = <<"(", "A", ")", " ", "#", "O", "R", "#", " ", "(", "A", ")">>
                /\ (old.cond = <<"(", "A", ")", " ", "#", "O", "R", "#", " ", "(", "A", ")">> /\ new.cond = <<"B">>) =>
                       FieldOf(after, name).cond = <<"(", "(", "A", ")", " ", "#", "O", "R", "#", " ", "(", "A", ")", ")", " ", "#", "O", "R", "#", " ", "(", "B", ")">>

\* An object has read three matching declarations of x, with the conditions
\* A, A and B
C7_Witness ==
    /\ count = 3
    /\ Len(fields) = 1
    /\ fields[1].name = <<"x">>
    /\ fields[1].type.cond = <<"(", "(", "A", ")", " ", "#", "O", "R", "#", " ", "(", "A", ")", ")", " ", "#", "O", "R", "#", " ", "(", "B", ")">>

\* C8: when the next emitted member redeclares a stored field and either
\* neither of the two has a condition or the shapes differ (the field not
\* being NiPalette.palette), every stored field stays as it was and where it
\* was; the redeclaration is reported, as one diagnostic and no exception,
\* unless it is the silent drop of two declarations without condition.
C8_FirstDeclarationWins ==
    \A d \in Redeclarations :
        LET name  == EntryName(d)
            old   == FieldOf(fields, name)
            new   == Type_from_xml(d)
            step  == NiObject_entry(objName, fields, d)
            bare  == old.cond = None /\ new.cond = None
            clash == ~SameShape(old, new) /\ ~(objName = <<"N", "i", "P", "a", "l", "e", "t", "t", "e">> /\ name = <<"p", "a", "l", "e", "t", "t", "e">>)
        IN  (bare \/ clash) =>
                /\ step.fields = fields
                /\ step.printed = IF bare THEN <<>> ELSE <<name>>

\* An object has kept x as first declared, has reported one redeclaration of
\* it, and has gone on to store palette
C8_Witness ==
    /\ count = 3
    /\ reports = <<<<"x">>>>
    /\ Len(fields) = 2
    /\ fields[1].name = <<"x">> /\ fields[1].type.ty = <<"u", "3", "2">> /\ fields[1].type.cond = <<"A">>
    /\ fields[2].name = <<"p", "a", "l", "e", "t", "t", "e">>

(***************************************************************************)
(* Properties of the expression parser                                     *)
(***************************************************************************)
\* C1: parse_expression returns the same normalized string for an expression
\* written with the symbolic operator tokens as for the same expression
\* written with their native spellings, for every operator of the table.
C1_OperatorTableEquivalence ==
    done => result = parse_expression(Render(tree, ~native))

\* C9: parse_expression returns a normalized string for every well-formed
\* expression: the error of text that matches no shape is raised neither for
\* the expression nor for an operand handed to a recursive call.
C9_TotalOnWellFormed ==
    done => result # Error

\* The leaves of a tree whose text must show in the result: all of them, but
\* those of the right operand of a native |
RECURSIVE KeptLeaves(_, _)
KeptLeaves(t, nat) ==
    IF t[1] = "leaf" THEN {t[2]}
    ELSE KeptLeaves(t[5], nat)
             \cup IF nat /\ OPERATORS[t[4]][2] = <<"|">> THEN {} ELSE KeptLeaves(t[6], nat)

\* C10: for a well-formed expression with an operator, the first shape that
\* matches matches the whole expression, the operands handed to the recursive
\* calls are the complete left and right operands of its top-level operator,
\* and the result drops no operand but the right operand of a native |.
C10_NoMisSplit ==
    (done /\ tree[1] = "node") =>
        /\ match.matched
        /\ match.end = Len(expr)
        /\ match.left = Render(tree[5], native)
        /\ match.right = Render(tree[6], native)
        /\ result # Error =>
               \A leaf \in KeptLeaves(tree, native) :
                   Contains(result, IF IsNumeric(leaf) THEN leaf ELSE convert_field_name(leaf))

\* C11: every stored field of an object has either no condition or a
\* condition whose operands are conditions that declarations of the field
\* carry (A, B and their merges): the text "None", which stands for an absent
\* condition, is no operand of a stored condition.
C11_MergedFromExistingConditions ==
    \A i \in DOMAIN fields :
        Type_is_optional(fields[i].type) => ~Contains(fields[i].type.cond, <<"N", "o", "n", "e">>)

============================================================================
